---- MODULE Spec2Model ----
(***************************************************************************)
(* Model of the request handlers of the marketplace application:           *)
(*   - the store listing endpoint (src/app/api/products/supplier/route.ts, *)
(*     second GET), which merges the seller's primary-registry connections *)
(*     with the legacy token store;                                        *)
(*   - the push operation (src/app/api/push-to-shopify/route.ts), which    *)
(*     validates a product, resolves the credential of the target shop,    *)
(*     calls the external platform and records a product mapping.          *)
(*   - the session endpoint (src/app/api/auth/session/route.ts);           *)
(*   - the webhook endpoint (src/app/api/shopify-webhook/route.ts);        *)
(*   - concurrent pushes, interleaved at the awaits of the push handler;   *)
(*   - the product service (src/lib/product-service.ts);                   *)
(*   - fetchOrders of the delivery page (src/unnamed/part_000).            *)
(* Each part has a specification of its own, on backing stores that Init   *)
(* draws from bounded sets; a request handler runs once per behaviour, the *)
(* concurrent pushes and the product service run step by step.             *)
(***************************************************************************)
EXTENDS Naturals, Sequences, FiniteSets, TLC

VARIABLES
    \* ---- store listing ----
    sellerConnections,  \* what SellerStoreService returns for the seller
    tokenStores,        \* what TokenManager.getUserStores returns for the seller
    lCookie,            \* the session_token cookie of the listing request
    lStatus,            \* HTTP status of the listing response, 0 = no response yet
    lBody,              \* JSON body of the listing response
    lQueried,           \* the backing sources the listing handler queried
    lDeleted,           \* the cookies the listing response deletes
    \* ---- sessions and the session verification endpoint ----
    sessions,           \* the session store read by AuthService.verifySession
    sCookie,            \* the session_token cookie of the session request
    sStatus,            \* HTTP status of the session response, 0 = no response yet
    sBody,              \* JSON body of the session response
    sDeleted,           \* the cookies the session response deletes
    \* ---- webhook endpoint ----
    wEnv,               \* process.env.SHOPIFY_WEBHOOK_SECRET, Null = not set
    wReq,               \* the webhook request: body and headers
    wStatus,            \* HTTP status of the webhook response, 0 = no response yet
    wBody,              \* JSON body of the webhook response
    wTrace,             \* the steps the handler ran: "verify", "parse", "dispatch"
    wLog,               \* the console output of the handler: <<level, message>>
    wCompared,          \* the symbols of the header the signature comparison read
    \* ---- push operation ----
    store_configs,      \* table store_configs (direct-config credential records)
    shopify_tokens,     \* legacy OAuth token store: shop -> token or Null
    mappings,           \* table product_shopify_mappings, in insertion order
    pReq,               \* the push request: body and X-Supplier-Product-ID header
    pStatus,            \* HTTP status of the push response, 0 = no response yet
    pBody,              \* JSON body of the push response
    pSent,              \* the requests sent to the external platform by this push
    pReads,             \* the credential stores this push read
    pInserts,           \* the rows this push tried to insert into the mapping table
    pUp,                \* the external platform's answer to this push
    pInsertResult,      \* how the insert ended: "none" (not tried), "ok", "error", "throw"
    \* ---- concurrent pushes ----
    pushers,            \* the push requests in flight: pusher -> position and locals
    \* ---- product service ----
    products,           \* table products, in insertion order
    suppliers,          \* table suppliers: rows {email, username, name}
    localName,          \* localStorage item supplierName, Null = not set
    decided,            \* product id -> the last approve/reject call that succeeded
    svcCall,            \* the last call of ProductService: its inputs and its result
    \* ---- delivery page ----
    selectedStore,      \* the store selected in the layout, Null = none
    oNet,               \* how each order endpoint answers: endpoint -> outcome
    oCalls,             \* the endpoints fetchOrders called, in order
    orders,             \* React state orders
    oLoading,           \* React state loading
    oError,             \* React state error, Null = no error
    oDone               \* fetchOrders has run

listVars == <<sellerConnections, tokenStores, lCookie, lStatus, lBody, lQueried, lDeleted>>
sessVars == <<sCookie, sStatus, sBody, sDeleted>>
hookVars == <<wEnv, wReq, wStatus, wBody, wTrace, wLog, wCompared>>
pushVars == <<store_configs, shopify_tokens, mappings, pReq, pStatus, pBody,
              pSent, pReads, pInserts, pUp, pInsertResult>>
concVars == <<pushers>>
svcVars == <<products, suppliers, localName, decided, svcCall>>
pageVars == <<selectedStore, oNet, oCalls, orders, oLoading, oError, oDone>>
vars == <<listVars, sessVars, sessions, pushVars, hookVars, concVars, svcVars, pageVars>>

----------------------------------------------------------------------------
(* Values shared by the handlers *)

\* null / undefined / a missing field
Null == "null"

\* JavaScript truthiness of a string-or-null value: null, undefined and the
\* empty string are falsy.
Truthy(v) == v # Null /\ v # ""

Shops == {"s1", "s2"}

\* Bounds of the model
MaxPrimary == 3
MaxLegacy == 2
MaxVariants == 2
MaxPushers == 2
MaxProducts == 2

SeqsUpTo(S, n) == UNION {[1..k -> S] : k \in 0..n}

----------------------------------------------------------------------------
(* Session verification: AuthService.verifySession of lib/auth-service,     *)
(* modelled from the specification's SessionAuthenticator.verify            *)

SessionStore ==
    {[token |-> "tokSeller",  username |-> "alice", userType |-> "seller", expired |-> FALSE],
     [token |-> "tokAdmin",   username |-> "root",  userType |-> "admin",  expired |-> FALSE],
     [token |-> "tokExpired", username |-> "alice", userType |-> "seller", expired |-> TRUE]}

\* The session stores the endpoints may run on: at most one session per token.
SessionTokens == {"tokSeller", "tokAdmin", "tokExpired"}
SessionRecords ==
    [token : SessionTokens, username : {"alice", "root"}, userType : {"seller", "admin"},
     expired : BOOLEAN]
SessionTables ==
    {UNION {pick[t] : t \in SessionTokens} :
        pick \in {f \in [SessionTokens -> {{}} \cup {{r} : r \in SessionRecords}] :
                     \A t \in SessionTokens : \A r \in f[t] : r.token = t}}

\* the cookie values a request may carry; "tokBogus" was never issued
Cookies == {Null, "", "tokSeller", "tokAdmin", "tokExpired", "tokBogus"}

NoUser == [username |-> Null, userType |-> Null]

verifySession(token) ==
    LET found == {s \in sessions : s.token = token}
    IN  IF found = {}
        THEN [success |-> FALSE, hasUser |-> FALSE, user |-> NoUser, error |-> "Invalid"]
        ELSE LET s == CHOOSE s \in found : TRUE
             IN  IF s.expired
                 THEN [success |-> FALSE, hasUser |-> FALSE, user |-> NoUser,
                       error |-> "Expired"]
                 ELSE [success |-> TRUE, hasUser |-> TRUE,
                       user |-> [username |-> s.username, userType |-> s.userType],
                       error |-> Null]

----------------------------------------------------------------------------
(* Store listing: GET of src/app/api/products/supplier/route.ts, lines 21-82 *)

Names == {"n1", "n2"}
Times == {1, 2}

\* a record of the primary registry, as SellerStoreService returns it
PrimaryRecords ==
    [storeUrl : Shops, storeName : Names, connectedAt : {0}, updatedAt : Times,
     connectionType : {"direct_api"}]

\* a record of the legacy token store, as TokenManager.getUserStores returns it
LegacyRecords == [shop : Shops, created_at : {0}, updated_at : Times]

\* A JavaScript Map is modelled as the sequence of its <<key, value>> entries in
\* insertion order.
MapHas(m, k) == \E i \in 1..Len(m) : m[i][1] = k

\* Mutants of MapSet: every set appends; an existing key keeps its old value;
\* a new key is put in front.
MapSetNoDedup(m, k, v) == Append(m, <<k, v>>)
MapSetKeepFirst(m, k, v) == IF MapHas(m, k) THEN m ELSE Append(m, <<k, v>>)
MapSetPrepend(m, k, v) ==
    IF MapHas(m, k)
    THEN [i \in 1..Len(m) |-> IF m[i][1] = k THEN <<k, v>> ELSE m[i]]
    ELSE <<<<k, v>>>> \o m

\* Map.prototype.set: a new key is appended; an existing key keeps its place and
\* gets the new value.
MapSet(m, k, v) ==
    IF MapHas(m, k)
    THEN [i \in 1..Len(m) |-> IF m[i][1] = k THEN <<k, v>> ELSE m[i]]
    ELSE Append(m, <<k, v>>)

\* Array.from(map.values())
MapValues(m) == [i \in 1..Len(m) |-> m[i][2]]

\* lines 47-54: the entry built from a primary-registry connection
PrimaryEntry(conn) ==
    [shop |-> conn.storeUrl, name |-> conn.storeName, connectedAt |-> conn.connectedAt,
     lastUpdated |-> conn.updatedAt, type |-> conn.connectionType,
     source |-> "seller_connections"]

\* lines 60-67: the entry built from a legacy token-store record
LegacyEntry(store) ==
    [shop |-> store.shop, name |-> store.shop, connectedAt |-> store.created_at,
     lastUpdated |-> store.updated_at, type |-> "legacy", source |-> "shopify_tokens"]

\* lines 46-55: sellerConnections.forEach(conn => storeMap.set(...))
RECURSIVE AddPrimary(_, _)
AddPrimary(m, conns) ==
    IF conns = <<>> THEN m
    ELSE AddPrimary(MapSet(m, Head(conns).storeUrl, PrimaryEntry(Head(conns))),
                    Tail(conns))

\* Mutant of AddLegacyOne: a legacy record that is newer than the entry already
\* in the map replaces it.
AddLegacyOneNewerWins(m, store) ==
    IF \E i \in 1..Len(m) : m[i][1] = store.shop /\ m[i][2].lastUpdated >= store.updated_at
    THEN m
    ELSE MapSet(m, store.shop, LegacyEntry(store))

\* lines 59-68: one iteration of tokenStores.forEach
AddLegacyOne(m, store) ==
    IF ~MapHas(m, store.shop) THEN MapSet(m, store.shop, LegacyEntry(store)) ELSE m

\* lines 58-69: tokenStores.forEach(store => ...)
RECURSIVE AddLegacy(_, _)
AddLegacy(m, stores) ==
    IF stores = <<>> THEN m
    ELSE AddLegacy(AddLegacyOne(m, Head(stores)), Tail(stores))

\* Mutant of MergeStores: the legacy records are inserted first.
MergeStoresLegacyFirst(conns, stores) ==
    MapValues(AddPrimary(AddLegacy(<<>>, stores), conns))

\* lines 43-71: the merged listing
MergeStores(conns, stores) == MapValues(AddLegacy(AddPrimary(<<>>, conns), stores))

NoListBody == [error |-> Null, stores |-> <<>>, username |-> Null, totalStores |-> 0]

ListRespond(status, body, queried) ==
    /\ lStatus' = status
    /\ lBody' = body
    /\ lQueried' = queried
    /\ lDeleted' = {}

\* Mutant of SellerSessionOK: the user's type is not looked at.
SellerSessionAnyRole(sr) == sr.success /\ sr.hasUser

\* line 32: the guard that rejects everything but a verified seller session
SellerSessionOK(sr) == sr.success /\ sr.hasUser /\ sr.user.userType = "seller"

\* The whole handler.  failAt names the backing source whose query throws
\* ("none": neither does); a throw is caught at line 78 and answered 500.
GetStores(cookie, failAt) ==
    /\ lStatus = 0
    /\ lCookie' = cookie
    /\ IF ~Truthy(cookie)
       THEN ListRespond(401, [NoListBody EXCEPT !.error = "Authentication required"], {})
       ELSE LET sr == verifySession(cookie) IN
            IF ~SellerSessionOK(sr)
            THEN ListRespond(401,
                     [NoListBody EXCEPT !.error = "Seller authentication required"], {})
            ELSE IF failAt = "seller_connections"
            THEN ListRespond(500, [NoListBody EXCEPT !.error = "Internal server error"],
                     {"seller_connections"})
            ELSE IF failAt = "shopify_tokens"
            THEN ListRespond(500, [NoListBody EXCEPT !.error = "Internal server error"],
                     {"seller_connections", "shopify_tokens"})
            ELSE LET stores == MergeStores(sellerConnections, tokenStores) IN
                 ListRespond(200,
                     [error |-> Null, stores |-> stores, username |-> sr.user.username,
                      totalStores |-> Len(stores)],
                     {"seller_connections", "shopify_tokens"})
    /\ UNCHANGED <<sellerConnections, tokenStores>>

ListRequest ==
    /\ \E cookie \in Cookies, failAt \in {"none", "seller_connections", "shopify_tokens"} :
          GetStores(cookie, failAt)
    /\ UNCHANGED <<pushVars, sessVars, sessions, hookVars, concVars, svcVars, pageVars>>

----------------------------------------------------------------------------
(* Session verification endpoint: GET of src/app/api/auth/session/route.ts *)

NoSessionBody == [success |-> FALSE, error |-> Null, user |-> NoUser]

SessionRespond(status, body, deleted) ==
    /\ sStatus' = status
    /\ sBody' = body
    /\ sDeleted' = deleted

\* Mutant of SessionFailure: the cookie is left alone.
SessionFailureKeepsCookie(result) ==
    SessionRespond(401, [NoSessionBody EXCEPT !.error = result.error], {})

\* lines 17-25: the answer to a token that did not verify
SessionFailure(result) ==
    SessionRespond(401, [NoSessionBody EXCEPT !.error = result.error], {"session_token"})

\* The whole handler, lines 4-39.  throws: verifySession throws, which line 32
\* catches and answers 500.
GetSession(cookie, throws) ==
    /\ sStatus = 0
    /\ sCookie' = cookie
    /\ IF ~Truthy(cookie)
       THEN SessionRespond(401, [NoSessionBody EXCEPT !.error = "No session token found"], {})
       ELSE IF throws
       THEN SessionRespond(500, [NoSessionBody EXCEPT !.error = "Internal server error"], {})
       ELSE LET result == verifySession(cookie) IN
            IF ~result.success
            THEN SessionFailure(result)
            ELSE SessionRespond(200, [success |-> TRUE, error |-> Null, user |-> result.user],
                                {})

SessionRequest ==
    /\ \E cookie \in Cookies, throws \in BOOLEAN : GetSession(cookie, throws)
    /\ UNCHANGED <<listVars, pushVars, sessions, hookVars, concVars, svcVars, pageVars>>

----------------------------------------------------------------------------
(* Push operation: POST of src/app/api/push-to-shopify/route.ts *)

\* --- the stores the push reads and writes ---

\* The credential fields a direct-config record may hold for a shop.  A value
\* names its record and its shop, so that the origin of every value on an
\* outgoing request can be told.
DirectToken(shop) == "dtok-" \o shop
DirectKey(shop) == "dkey-" \o shop
DirectSecret(shop) == "dsec-" \o shop
LegacyToken(shop) == "ltok-" \o shop

\* The store_configs rows that may exist for a shop
ConfigRows(shop) ==
    [store_url : {shop}, is_active : BOOLEAN,
     access_token : {Null, DirectToken(shop)},
     api_key : {Null, DirectKey(shop)},
     api_secret : {Null, DirectSecret(shop)}]

\* The contents of store_configs: at most one direct-config record per shop
\* (data model of the specification: one record per source for a storeId).
OneConfigPerShop(table) ==
    \A r1, r2 \in table : r1.store_url = r2.store_url => r1 = r2

ConfigTables ==
    {UNION {pick[s] : s \in Shops} :
        pick \in {f \in [Shops -> {{}} \cup {{r} : r \in UNION {ConfigRows(s) : s \in Shops}}] :
                     \A s \in Shops : \A r \in f[s] : r.store_url = s}}

\* The contents of the legacy OAuth token store
TokenTables == {t \in [Shops -> {Null} \cup {LegacyToken(s) : s \in Shops}] :
                   \A s \in Shops : t[s] \in {Null, LegacyToken(s)}}

\* A row written by an earlier push
OldMapping ==
    [supplier_product_id |-> "p0", shopify_product_id |-> "1",
     shopify_store_url |-> "s1", pushed_at |-> "earlier"]

\* --- the request ---

Prices == {Null, "9.99"}
VariantLists == SeqsUpTo([price : Prices], MaxVariants)

\* product.variants: missing, something that is no array, or an array
VariantsValues ==
    {[kind |-> "missing", items |-> <<>>], [kind |-> "notarray", items |-> <<>>]}
        \cup {[kind |-> "array", items |-> v] : v \in VariantLists}

NullProduct == [isNull |-> TRUE, title |-> Null, variants |-> [kind |-> "missing", items |-> <<>>]]
Products ==
    {NullProduct} \cup [isNull : {FALSE}, title : {Null, "Shirt"}, variants : VariantsValues]

\* json = FALSE: the request body is no JSON and request.json() throws
BadJsonRequest == [json |-> FALSE, product |-> NullProduct, shop |-> Null, spid |-> Null]
PushRequests ==
    {BadJsonRequest}
        \cup [json : {TRUE}, product : Products, shop : {Null} \cup Shops, spid : {Null, "p1"}]

\* --- the external platform's answers ---

NoUpProduct == [present |-> FALSE, hasId |-> FALSE, id |-> 0, title |-> Null]
\* throws: fetch rejects and there is no answer.  json = FALSE: the body of the
\* answer is no JSON (the error page of a gateway, of a host that is no shop)
\* and response.json() throws.
NoAnswer == [throws |-> TRUE, status |-> 0, json |-> FALSE, product |-> NoUpProduct,
             errors |-> Null]
Upstreams ==
    {NoAnswer,
     [throws |-> FALSE, status |-> 201, json |-> TRUE,
      product |-> [present |-> TRUE, hasId |-> TRUE, id |-> 77, title |-> "Shirt"],
      errors |-> Null],
     [throws |-> FALSE, status |-> 201, json |-> TRUE,
      product |-> [present |-> TRUE, hasId |-> FALSE, id |-> 0, title |-> "Shirt"],
      errors |-> Null],
     [throws |-> FALSE, status |-> 200, json |-> TRUE, product |-> NoUpProduct,
      errors |-> Null],
     [throws |-> FALSE, status |-> 422, json |-> TRUE, product |-> NoUpProduct,
      errors |-> "title taken"],
     [throws |-> FALSE, status |-> 401, json |-> TRUE, product |-> NoUpProduct,
      errors |-> Null],
     [throws |-> FALSE, status |-> 502, json |-> FALSE, product |-> NoUpProduct,
      errors |-> Null],
     [throws |-> FALSE, status |-> 200, json |-> FALSE, product |-> NoUpProduct,
      errors |-> Null]}

\* the outcomes of the insert into product_shopify_mappings
InsertOutcomes == {"ok", "error", "throw"}

\* --- helpers of the handler ---

\* Number.prototype.toString of a natural number
Digit(d) == CASE d = 0 -> "0" [] d = 1 -> "1" [] d = 2 -> "2" [] d = 3 -> "3"
              [] d = 4 -> "4" [] d = 5 -> "5" [] d = 6 -> "6" [] d = 7 -> "7"
              [] d = 8 -> "8" [] d = 9 -> "9"
RECURSIVE NatToString(_)
NatToString(n) == IF n < 10 THEN Digit(n) ELSE NatToString(n \div 10) \o Digit(n % 10)

\* Buffer.from(s).toString('base64'): an injective encoding of s
Base64(s) == "b64(" \o s \o ")"

\* lines 37-38: the Basic credential of an api key/secret pair
BasicCredential(key, secret) == "Basic " \o Base64(key \o ":" \o secret)

\* response.ok
ResponseOk(status) == status >= 200 /\ status <= 299

\* Mutant of ValidProduct: only the title is required.
ValidProductTitleOnly(product) == Truthy(product.title)

\* lines 8 and 12: the request passes validation
HasShopAndProduct(req) == ~req.product.isNull /\ Truthy(req.shop)
ValidProduct(product) ==
    /\ Truthy(product.title)
    /\ product.variants.kind = "array"
    /\ Len(product.variants.items) >= 1
    /\ Truthy(product.variants.items[1].price)

NoRow == [store_url |-> Null, is_active |-> FALSE, access_token |-> Null,
          api_key |-> Null, api_secret |-> Null]

\* lines 25-30: select * from store_configs where store_url = shop and
\* is_active = true, .single(): the row when exactly one matches, else no data.
\* The query itself is taken to succeed.
SingleActiveConfig(table, shop) ==
    LET rows == {r \in table : r.store_url = shop /\ r.is_active}
    IN  IF Cardinality(rows) = 1
        THEN [found |-> TRUE, row |-> CHOOSE r \in rows : TRUE]
        ELSE [found |-> FALSE, row |-> NoRow]

\* TokenManager.getToken(shop) of lib/token-manager, modelled from the
\* specification: the legacy token of the shop, or null when there is none
getToken(tokens, shop) == tokens[shop]

NoAuth == [ok |-> FALSE, token |-> Null, authorization |-> Null, reads |-> {},
           error |-> Null]

\* Mutant of DirectCredential: a record holding a token and a key pair sets
\* both headers.
DirectCredentialBoth(row) ==
    [NoAuth EXCEPT
        !.ok = Truthy(row.access_token) \/ (Truthy(row.api_key) /\ Truthy(row.api_secret)),
        !.token = IF Truthy(row.access_token) THEN row.access_token ELSE Null,
        !.authorization = IF Truthy(row.api_key) /\ Truthy(row.api_secret)
                          THEN BasicCredential(row.api_key, row.api_secret) ELSE Null,
        !.reads = {"store_configs"},
        !.error = "No valid credentials found for direct API store"]

\* lines 32-41: the credential taken from the direct-config record
DirectCredential(row) ==
    IF Truthy(row.access_token)
    THEN [NoAuth EXCEPT !.ok = TRUE, !.token = row.access_token,
                        !.reads = {"store_configs"}]
    ELSE IF Truthy(row.api_key) /\ Truthy(row.api_secret)
    THEN [NoAuth EXCEPT !.ok = TRUE,
                        !.authorization = BasicCredential(row.api_key, row.api_secret),
                        !.reads = {"store_configs"}]
    ELSE [NoAuth EXCEPT !.reads = {"store_configs"},
                        !.error = "No valid credentials found for direct API store"]

\* Mutant of LegacyCredential: the missing token is not checked for.
LegacyCredentialNoCheck(tokens, shop) ==
    [NoAuth EXCEPT !.ok = TRUE, !.token = getToken(tokens, shop),
                   !.reads = {"store_configs", "shopify_tokens"}]

\* lines 42-49: the fallback to the legacy OAuth token
LegacyCredential(tokens, shop) ==
    LET accessToken == getToken(tokens, shop)
    IN  IF ~Truthy(accessToken)
        THEN [NoAuth EXCEPT !.reads = {"store_configs", "shopify_tokens"},
                 !.error = "Missing access token. Please connect to Shopify first."]
        ELSE [NoAuth EXCEPT !.ok = TRUE, !.token = accessToken,
                            !.reads = {"store_configs", "shopify_tokens"}]

\* Mutants of ResolveCredential: the legacy token is tried first; the legacy
\* token fills in for the token the direct-config record lacks.
ResolveCredentialLegacyFirst(table, tokens, shop) ==
    LET cfg == SingleActiveConfig(table, shop)
    IN  IF Truthy(getToken(tokens, shop)) \/ ~cfg.found
        THEN LegacyCredential(tokens, shop)
        ELSE DirectCredential(cfg.row)
ResolveCredentialMerged(table, tokens, shop) ==
    LET cfg == SingleActiveConfig(table, shop)
        direct == DirectCredential(cfg.row)
        legacy == LegacyCredential(tokens, shop)
    IN  IF ~cfg.found THEN legacy
        ELSE IF direct.ok /\ direct.token = Null /\ legacy.ok
        THEN [direct EXCEPT !.token = legacy.token, !.reads = legacy.reads]
        ELSE direct

\* Mutant of ResolveCredential: a direct-config record without usable
\* credentials falls through to the legacy token.
ResolveCredentialFallThrough(table, tokens, shop) ==
    LET cfg == SingleActiveConfig(table, shop)
    IN  IF cfg.found /\ DirectCredential(cfg.row).ok
        THEN DirectCredential(cfg.row)
        ELSE LegacyCredential(tokens, shop)

\* lines 20-49: the authentication headers of the outgoing request
ResolveCredential(table, tokens, shop) ==
    LET cfg == SingleActiveConfig(table, shop)
    IN  IF cfg.found THEN DirectCredential(cfg.row) ELSE LegacyCredential(tokens, shop)

\* lines 55-59: the request sent to the external platform
OutgoingRequest(req, cred) ==
    [shop |-> req.shop, method |-> "POST", token |-> cred.token,
     authorization |-> cred.authorization, product |-> req.product]

\* lines 83-88: the row of product_shopify_mappings
MappingRow(req, up) ==
    [supplier_product_id |-> req.spid,
     shopify_product_id |-> NatToString(up.product.id),
     shopify_store_url |-> req.shop,
     pushed_at |-> "now"]

\* Mutant of StoresMapping: the product id of the answer is not required.
StoresMappingWithoutId(req, up) == Truthy(req.spid)

\* Mutant of StoresMapping: the header is not required.
StoresMappingWithoutHeader(req, up) ==
    up.product.present /\ up.product.hasId /\ up.product.id # 0

\* Mutant of InsertRow: a row of the same supplier product and shop is replaced.
SamePair(r1, r2) ==
    /\ r1.supplier_product_id = r2.supplier_product_id
    /\ r1.shopify_store_url = r2.shopify_store_url
UpsertRow(table, row) ==
    IF \E k \in DOMAIN table : SamePair(table[k], row)
    THEN [k \in DOMAIN table |-> IF SamePair(table[k], row) THEN row ELSE table[k]]
    ELSE Append(table, row)

\* lines 81-88: supabase.from('product_shopify_mappings').insert(row)
InsertRow(table, row) == Append(table, row)

\* line 73: the condition under which the mapping is stored
StoresMapping(req, up) ==
    up.product.present /\ up.product.hasId /\ up.product.id # 0 /\ Truthy(req.spid)

NoPushBody == [success |-> FALSE, error |-> Null, upstreamErrors |-> Null,
               product |-> NoUpProduct]

PushRespond(status, body, sent, reads, inserts) ==
    /\ pStatus' = status
    /\ pBody' = body
    /\ pSent' = sent
    /\ pReads' = reads
    /\ pInserts' = inserts

\* line 67: { error: data.errors || data || "Shopify error" }
UpstreamErrorBody(up) ==
    [NoPushBody EXCEPT !.error = IF Truthy(up.errors) THEN "errors" ELSE "data",
                       !.upstreamErrors = up.errors]

\* the handler returns without an insert
NoInsert ==
    /\ pInsertResult' = "none"
    /\ UNCHANGED mappings

\* lines 55-106: the fetch and what follows the external platform's answer `up`
AfterFetch(req, cred, up) ==
    LET sent == <<OutgoingRequest(req, cred)>> IN
    /\ pUp' = up
    /\ IF up.throws \/ ~up.json
       THEN /\ PushRespond(500, [NoPushBody EXCEPT !.error = "Internal server error"],
                           sent, cred.reads, <<>>)
            /\ NoInsert
       ELSE IF ~ResponseOk(up.status)
       THEN /\ PushRespond(up.status, UpstreamErrorBody(up), sent, cred.reads, <<>>)
            /\ NoInsert
       ELSE IF StoresMapping(req, up)
       THEN \E ins \in InsertOutcomes :
               /\ mappings' = IF ins = "ok" THEN InsertRow(mappings, MappingRow(req, up))
                              ELSE mappings
               /\ pInsertResult' = ins
               /\ PushRespond(200,
                      [NoPushBody EXCEPT !.success = TRUE, !.product = up.product],
                      sent, cred.reads, <<MappingRow(req, up)>>)
       ELSE /\ PushRespond(200, [NoPushBody EXCEPT !.success = TRUE, !.product = up.product],
                           sent, cred.reads, <<>>)
            /\ NoInsert

\* Mutant of ReadCredentialStores: the direct-config record that was used is
\* deactivated.
DeactivateCredentialStores ==
    /\ store_configs' = {[r EXCEPT !.is_active = FALSE] : r \in store_configs}
    /\ shopify_tokens' = shopify_tokens

\* lines 25-30 and 44: the credential stores are queried with a select and
\* with TokenManager.getToken, and nothing is written to them
ReadCredentialStores == UNCHANGED <<store_configs, shopify_tokens>>

\* the handler returns before the fetch
NoFetch ==
    /\ pUp' = NoAnswer
    /\ NoInsert

\* The whole handler, lines 5-111
Push(req) ==
    /\ pStatus = 0
    /\ pReq' = req
    /\ ReadCredentialStores
    /\ IF ~req.json
       THEN /\ PushRespond(500, [NoPushBody EXCEPT !.error = "Internal server error"],
                           <<>>, {}, <<>>)
            /\ NoFetch
       ELSE IF ~HasShopAndProduct(req)
       THEN /\ PushRespond(400, [NoPushBody EXCEPT !.error = "Missing shop or product data"],
                           <<>>, {}, <<>>)
            /\ NoFetch
       ELSE IF ~ValidProduct(req.product)
       THEN /\ PushRespond(400,
                   [NoPushBody EXCEPT !.error =
                       "Product must have a title and at least one variant with a price"],
                   <<>>, {}, <<>>)
            /\ NoFetch
       ELSE LET cred == ResolveCredential(store_configs, shopify_tokens, req.shop) IN
            IF ~cred.ok
            THEN /\ PushRespond(401, [NoPushBody EXCEPT !.error = cred.error],
                                <<>>, cred.reads, <<>>)
                 /\ NoFetch
            ELSE \E up \in Upstreams : AfterFetch(req, cred, up)

PushRequest ==
    /\ \E req \in PushRequests : Push(req)
    /\ UNCHANGED <<listVars, sessVars, sessions, hookVars, concVars, svcVars, pageVars>>

----------------------------------------------------------------------------
(* Concurrent pushes: several POSTs of push-to-shopify/route.ts in flight,  *)
(* interleaved at the handler's awaits                                      *)

Pushers == 1 .. MaxPushers

\* the requests of the concurrent pushes: a valid product, with or without
\* the X-Supplier-Product-ID header, and a product without variants
ConcRequests ==
    {r \in PushRequests :
        /\ r.json /\ r.shop # Null /\ ~r.product.isNull /\ r.product.title # Null
        /\ r.product.variants \in {[kind |-> "missing", items |-> <<>>],
                                   [kind |-> "array", items |-> <<[price |-> "9.99"]>>]}}

\* the external platform gives every product it creates an id of its own
AnswerTo(i, up) ==
    IF up.product.hasId THEN [up EXCEPT !.product.id = @ + i] ELSE up

NoRowYet == [supplier_product_id |-> Null, shopify_product_id |-> Null,
             shopify_store_url |-> Null, pushed_at |-> Null]

\* a request that has arrived: pc is the await the handler is at
Arrived(req) ==
    [pc |-> "start", req |-> req, status |-> 0, up |-> NoAnswer, ins |-> "none",
     row |-> NoRowYet]

NoPushers == <<>>

\* lines 7-49: validation and credential resolution, up to the fetch
ConcResolve(i) ==
    LET me == pushers[i]
        cred == ResolveCredential(store_configs, shopify_tokens, me.req.shop)
    IN  /\ me.pc = "start"
        /\ pushers' = [pushers EXCEPT ![i] =
              IF ~HasShopAndProduct(me.req) \/ ~ValidProduct(me.req.product)
              THEN [me EXCEPT !.pc = "done", !.status = 400]
              ELSE IF ~cred.ok
              THEN [me EXCEPT !.pc = "done", !.status = 401]
              ELSE [me EXCEPT !.pc = "fetching"]]
        /\ UNCHANGED <<store_configs, shopify_tokens, mappings>>

\* lines 55-73, 98-106: the platform's answer arrives
ConcAnswer(i) ==
    LET me == pushers[i] IN
    /\ me.pc = "fetching"
    /\ \E u \in Upstreams :
          LET up == AnswerTo(i, u) IN
          pushers' = [pushers EXCEPT ![i] =
              IF up.throws \/ ~up.json
              THEN [me EXCEPT !.pc = "done", !.status = 500, !.up = up]
              ELSE IF ~ResponseOk(up.status)
              THEN [me EXCEPT !.pc = "done", !.status = up.status, !.up = up]
              ELSE IF StoresMapping(me.req, up)
              THEN [me EXCEPT !.pc = "inserting", !.up = up,
                              !.row = MappingRow(me.req, up)]
              ELSE [me EXCEPT !.pc = "done", !.status = 200, !.up = up]]
    /\ UNCHANGED <<store_configs, shopify_tokens, mappings>>

\* lines 81-106: the insert is executed by the database and the push answers
ConcInsert(i) ==
    LET me == pushers[i] IN
    /\ me.pc = "inserting"
    /\ \E ins \in InsertOutcomes :
          /\ mappings' = IF ins = "ok" THEN InsertRow(mappings, me.row) ELSE mappings
          /\ pushers' = [pushers EXCEPT ![i] =
                            [me EXCEPT !.pc = "done", !.status = 200, !.ins = ins]]
    /\ UNCHANGED <<store_configs, shopify_tokens>>

ConcStep ==
    /\ \E i \in Pushers : ConcResolve(i) \/ ConcAnswer(i) \/ ConcInsert(i)
    /\ UNCHANGED <<pReq, pStatus, pBody, pSent, pReads, pInserts, pUp, pInsertResult>>
    /\ UNCHANGED <<listVars, sessVars, sessions, hookVars, svcVars, pageVars>>

----------------------------------------------------------------------------
(* Product service: class ProductService of src/lib/product-service.ts *)

\* the authenticated users, by email; user.id is an id of the auth service
Emails == {"alice@x", "bob@x"}
UserId(email) == "uid:" \o email

\* the rows of table suppliers
AliceRow == [email |-> "alice@x", username |-> "alice", name |-> "Alice Ltd"]
BobRow == [email |-> "bob@x", username |-> "bob", name |-> Null]
SupplierTables == {{AliceRow}, {AliceRow, BobRow}}

\* localStorage.getItem('supplierName'): not set, empty, or a supplier name
LocalNames == {Null, "", "mallory"}

ProductIds == 1 .. MaxProducts

\* the outcomes of supabase.auth.getUser() and supabase.auth.refreshSession():
\* a user, no user with or without an error, or a thrown exception
AuthResults ==
    {[throws |-> FALSE, user |-> u, error |-> FALSE] : u \in Emails}
        \cup {[throws |-> FALSE, user |-> Null, error |-> TRUE],
              [throws |-> FALSE, user |-> Null, error |-> FALSE],
              [throws |-> TRUE, user |-> Null, error |-> TRUE]}

\* lines 74-96: the user of getSupplierProducts, after the attempt to refresh
\* the session when getUser throws
ResolveUser(auth, refresh) ==
    IF ~auth.throws THEN [user |-> auth.user, error |-> auth.error]
    ELSE IF refresh.throws THEN [user |-> Null, error |-> TRUE]
    ELSE IF refresh.user # Null THEN [user |-> refresh.user, error |-> FALSE]
    ELSE [user |-> Null, error |-> refresh.error]

NoSupplier == [email |-> Null, username |-> Null, name |-> Null]

\* from('suppliers').select(..).eq('email', email).single(): the row when the
\* query succeeds and exactly one row matches
SupplierByEmail(table, email, fails) ==
    LET hits == {r \in table : r.email = email}
    IN  IF ~fails /\ Cardinality(hits) = 1
        THEN [found |-> TRUE, row |-> CHOOSE r \in hits : TRUE]
        ELSE [found |-> FALSE, row |-> NoSupplier]

\* Mutant of SupplierIdentity: the client-stored name is used whenever it is set.
SupplierIdentityLocalFirst(lookup, local) ==
    IF Truthy(local) THEN [id |-> local, source |-> "local"]
    ELSE IF lookup.found THEN [id |-> lookup.row.username, source |-> "db"]
    ELSE [id |-> "Unknown User", source |-> "default"]

\* lines 149-158 (and 204-213): the supplier id of the authenticated user
SupplierIdentity(lookup, local) ==
    IF ~lookup.found
    THEN IF Truthy(local) THEN [id |-> local, source |-> "local"]
         ELSE [id |-> "Unknown User", source |-> "default"]
    ELSE [id |-> lookup.row.username, source |-> "db"]

RECURSIVE Reverse(_)
Reverse(q) == IF q = <<>> THEN <<>> ELSE Append(Reverse(Tail(q)), Head(q))

\* .eq('supplier_id', id).order('created_at', {ascending: false})
ProductsOfSupplier(table, id) == Reverse(SelectSeq(table, LAMBDA r : r.supplier_id = id))

\* .eq('status', 'approved').order('created_at', {ascending: false})
ApprovedProducts(table) == Reverse(SelectSeq(table, LAMBDA r : r.status = "approved"))

IdsOf(rows) == {rows[k].id : k \in DOMAIN rows}

NoCall == [op |-> "none", user |-> Null, authFailed |-> FALSE, lookupOk |-> FALSE,
           source |-> "none", queried |-> Null, id |-> 0, ok |-> FALSE, result |-> <<>>]

\* lines 68-182
getSupplierProducts(auth, refresh, lookupFails, queryFails) ==
    LET u == ResolveUser(auth, refresh)
        authFailed == u.error \/ u.user = Null
        lookup == SupplierByEmail(suppliers, u.user, lookupFails)
        who == SupplierIdentity(lookup, localName)
        call == [NoCall EXCEPT !.op = "getSupplierProducts", !.user = u.user,
                               !.authFailed = authFailed]
    IN  /\ svcCall' =
              IF authFailed
              THEN IF Truthy(localName)
                   THEN [call EXCEPT !.source = "local", !.queried = localName,
                            !.ok = ~queryFails,
                            !.result = IF queryFails THEN <<>>
                                       ELSE ProductsOfSupplier(products, localName)]
                   ELSE call
              ELSE [call EXCEPT !.lookupOk = lookup.found, !.source = who.source,
                       !.queried = who.id, !.ok = ~queryFails,
                       !.result = IF queryFails THEN <<>>
                                  ELSE ProductsOfSupplier(products, who.id)]
        /\ UNCHANGED <<products, decided>>

\* the product data of the caller, which may carry a status of its own
ProductData == [title : {"Shirt"}, status : {Null, "approved"}]

\* Mutant of NewProductRow: the caller's data is spread last.
NewProductRowSpreadLast(id, data, who, name) ==
    [id |-> id, title |-> data.title, supplier_id |-> who, supplier_name |-> name,
     status |-> IF data.status # Null THEN data.status ELSE "pending"]

\* lines 215-222: {...productData, supplier_id, supplier_name, status: 'pending'}
\* with the id the database gives the row
NewProductRow(id, data, who, name) ==
    [id |-> id, title |-> data.title, supplier_id |-> who, supplier_name |-> name,
     status |-> "pending"]

\* the id of the next row: ids are never given twice
NextProductId == CHOOSE i \in ProductIds : decided[i] = "absent" /\
                     \A j \in ProductIds : decided[j] = "absent" => i <= j

\* lines 184-236
createProduct(data, auth, lookupFails, insertFails) ==
    LET authFailed == auth.throws \/ auth.error \/ auth.user = Null
        lookup == SupplierByEmail(suppliers, auth.user, lookupFails)
        who == SupplierIdentity(lookup, localName)
        name == IF lookup.found
                THEN IF Truthy(lookup.row.name) THEN lookup.row.name ELSE lookup.row.username
                ELSE who.id
        call == [NoCall EXCEPT !.op = "createProduct", !.user = auth.user,
                               !.authFailed = authFailed]
    IN  /\ \E i \in ProductIds : decided[i] = "absent"
        /\ IF authFailed \/ insertFails
           THEN /\ svcCall' = call
                /\ UNCHANGED <<products, decided>>
           ELSE /\ products' = Append(products, NewProductRow(NextProductId, data, who.id, name))
                /\ decided' = [decided EXCEPT ![NextProductId] = "none"]
                /\ svcCall' = [call EXCEPT !.lookupOk = lookup.found, !.source = who.source,
                                  !.queried = who.id, !.id = NextProductId, !.ok = TRUE]

\* .update({status: s}).eq('id', productId)
SetStatus(table, productId, status) ==
    [k \in DOMAIN table |->
        IF table[k].id = productId THEN [table[k] EXCEPT !.status = status] ELSE table[k]]

\* lines 238-282: approveProduct and rejectProduct
DecideProduct(op, productId, status, fails) ==
    /\ products' = IF fails THEN products ELSE SetStatus(products, productId, status)
    /\ decided' = IF ~fails /\ decided[productId] # "absent"
                  THEN [decided EXCEPT ![productId] = status] ELSE decided
    /\ svcCall' = [NoCall EXCEPT !.op = op, !.id = productId, !.ok = ~fails]

approveProduct(productId, fails) == DecideProduct("approveProduct", productId, "approved", fails)
rejectProduct(productId, fails) == DecideProduct("rejectProduct", productId, "rejected", fails)

\* what the caller of updateProduct passes
UpdateData == [title : {"Hat"}, status : {Null, "approved"}]

\* lines 284-308: the row is updated when its supplier_id is the id of the user
updateProduct(productId, data, auth, fails) ==
    LET hit(r) == r.id = productId /\ auth.user # Null /\ r.supplier_id = UserId(auth.user)
        done == ~auth.throws /\ auth.user # Null /\ ~fails
    IN  /\ products' =
              IF done
              THEN [k \in DOMAIN products |->
                       IF hit(products[k])
                       THEN [products[k] EXCEPT
                                !.title = data.title,
                                !.status = IF data.status # Null THEN data.status ELSE @]
                       ELSE products[k]]
              ELSE products
        /\ svcCall' = [NoCall EXCEPT !.op = "updateProduct", !.id = productId,
                          !.user = auth.user,
                          !.ok = done /\ \E k \in DOMAIN products : hit(products[k])]
        /\ UNCHANGED decided

\* lines 310-332: the row is deleted when its supplier_id is the stored name
deleteProduct(productId, fails) ==
    LET supplierId == IF Truthy(localName) THEN localName ELSE "Unknown Supplier"
    IN  /\ products' =
              IF fails THEN products
              ELSE SelectSeq(products,
                       LAMBDA r : ~(r.id = productId /\ r.supplier_id = supplierId))
        /\ svcCall' = [NoCall EXCEPT !.op = "deleteProduct", !.id = productId, !.ok = ~fails]
        /\ UNCHANGED decided

\* lines 5-24
getApprovedProducts(fails) ==
    /\ svcCall' = [NoCall EXCEPT !.op = "getApprovedProducts", !.ok = ~fails,
                      !.result = IF fails THEN <<>> ELSE ApprovedProducts(products)]
    /\ UNCHANGED <<products, decided>>

ServiceCall ==
    /\ \/ \E a \in AuthResults, lf, qf \in BOOLEAN :
             \E r \in IF a.throws THEN AuthResults ELSE {a} :
                getSupplierProducts(a, r, lf, qf)
       \/ \E d \in ProductData, a \in AuthResults :
             \E lf, xf \in IF a.user = Null THEN {FALSE} ELSE BOOLEAN :
                createProduct(d, a, lf, xf)
       \/ \E i \in ProductIds, f \in BOOLEAN : approveProduct(i, f)
       \/ \E i \in ProductIds, f \in BOOLEAN : rejectProduct(i, f)
       \/ \E i \in ProductIds, d \in UpdateData, a \in AuthResults :
             \E f \in IF a.user = Null THEN {FALSE} ELSE BOOLEAN :
                updateProduct(i, d, a, f)
       \/ \E i \in ProductIds, f \in BOOLEAN : deleteProduct(i, f)
       \/ \E f \in BOOLEAN : getApprovedProducts(f)
    /\ UNCHANGED <<suppliers, localName>>
    /\ UNCHANGED <<listVars, sessVars, sessions, pushVars, hookVars, concVars, pageVars>>

----------------------------------------------------------------------------
(* Delivery page: fetchOrders of src/unnamed/part_000, lines 88-153 *)

\* Mutant of Endpoints: the REST API is tried before the GraphQL API.
EndpointsRestSecond == <<"unified", "rest", "graphql">>

\* lines 97, 105, 113: /api/stores/orders, /api/shopify-orders-graphql,
\* /api/shopify-orders, in the order they are tried
Endpoints == <<"unified", "graphql", "rest">>

EndpointNames == {"unified", "graphql", "rest"}

\* an order as an endpoint sends it
RawOrders == {<<>>, <<[id |-> 1, status |-> Null]>>,
              <<[id |-> 1, status |-> "paid"], [id |-> 2, status |-> Null]>>}

\* how an endpoint answers: fetch rejects, or a response that is ok or not,
\* whose body is no JSON ("text"), the JSON null, a JSON object whose orders
\* are no array ("badorders"), or a JSON object that has orders (ok) or an
\* error message (not ok) or neither
AnswerBodies == {"text", "null", "object"}
Answers ==
    {[rejects |-> TRUE, ok |-> FALSE, body |-> "text", orders |-> <<>>, error |-> Null]}
        \cup {[rejects |-> FALSE, ok |-> TRUE, body |-> "text", orders |-> <<>>, error |-> Null],
              [rejects |-> FALSE, ok |-> TRUE, body |-> "null", orders |-> <<>>, error |-> Null],
              [rejects |-> FALSE, ok |-> TRUE, body |-> "badorders", orders |-> <<>>,
               error |-> Null]}
        \cup {[rejects |-> FALSE, ok |-> TRUE, body |-> "object", orders |-> o, error |-> Null] :
                 o \in RawOrders}
        \cup {[rejects |-> FALSE, ok |-> FALSE, body |-> b, orders |-> <<>>, error |-> Null] :
                 b \in AnswerBodies}
        \cup {[rejects |-> FALSE, ok |-> FALSE, body |-> "object", orders |-> <<>>,
               error |-> "store not connected"]}

\* lines 130-145: the normalisation of one order
NormalizeOrder(o) ==
    [id |-> o.id, status |-> IF Truthy(o.status) THEN o.status ELSE "pending"]

\* what the try block ends with: the endpoints called, and either the data of
\* the answer that was ok or the message of the exception thrown
RECURSIVE TryEndpoints(_, _, _)
TryEndpoints(net, k, called) ==
    LET a == net[Endpoints[k]]
        calls == Append(called, Endpoints[k])
    IN  IF a.rejects
        THEN [calls |-> calls, thrown |-> "fetch failed", data |-> <<>>]
        ELSE IF a.ok
        THEN IF a.body = "text"
             THEN [calls |-> calls, thrown |-> "Unexpected token", data |-> <<>>]
             ELSE IF a.body = "null"
             THEN [calls |-> calls, thrown |-> "Cannot read properties of null", data |-> <<>>]
             ELSE IF a.body = "badorders"
             THEN [calls |-> calls, thrown |-> "map is not a function", data |-> <<>>]
             ELSE [calls |-> calls, thrown |-> Null, data |-> a.orders]
        ELSE IF k < Len(Endpoints)
        THEN TryEndpoints(net, k + 1, calls)
        ELSE IF a.body = "text"
        THEN [calls |-> calls, thrown |-> "Unexpected token", data |-> <<>>]
        ELSE IF a.body = "null"
        THEN [calls |-> calls, thrown |-> "Cannot read properties of null", data |-> <<>>]
        ELSE [calls |-> calls,
              thrown |-> IF Truthy(a.error) THEN a.error
                         ELSE "Failed to fetch orders from all APIs",
              data |-> <<>>]

\* The whole of fetchOrders, lines 88-153
fetchOrders ==
    LET r == IF ~Truthy(selectedStore)
             THEN [calls |-> <<>>, thrown |-> "No store selected", data |-> <<>>]
             ELSE TryEndpoints(oNet, 1, <<>>)
    IN  /\ ~oDone
        /\ oDone' = TRUE
        /\ oCalls' = r.calls
        /\ orders' = IF r.thrown = Null
                     THEN [k \in DOMAIN r.data |-> NormalizeOrder(r.data[k])]
                     ELSE orders
        /\ oError' = r.thrown
        /\ oLoading' = FALSE
        /\ UNCHANGED <<selectedStore, oNet>>

FetchOrdersCall ==
    /\ fetchOrders
    /\ UNCHANGED <<listVars, sessVars, sessions, pushVars, hookVars, concVars, svcVars>>

----------------------------------------------------------------------------
(* Webhook endpoint: POST of src/app/api/shopify-webhook/route.ts *)

\* line 5: the default that stands in for a secret that is not configured
PlaceholderSecret == "your-webhook-secret"

\* the values of the environment variable
SecretEnvs == {Null, "", PlaceholderSecret, "s3cret", "other"}

\* line 5: process.env.SHOPIFY_WEBHOOK_SECRET || "your-webhook-secret"
WebhookSecret(env) == IF Truthy(env) THEN env ELSE PlaceholderSecret

\* the request bodies: a JSON object, the JSON values null and 7, no JSON at all
HookBodies == {"{\"id\":1}", "null", "7", "{\"id\":"}

\* JSON.parse(body): what the body parses to, "invalid" when it throws
JsonKind(body) ==
    CASE body = "{\"id\":1}" -> "object"
      [] body = "null" -> "null"
      [] body = "7" -> "number"
      [] OTHER -> "invalid"

\* lines 18-21: createHmac("sha256", secret).update(body).digest("base64"), a
\* string that secret and body determine, modelled as its sequence of symbols
HmacBase64(secret, body) == <<"h", secret, body, "=">>

\* a signature with its i-th symbol changed, and one cut short
FlipAt(sig, i) == [sig EXCEPT ![i] = "#"]
CutShort(sig) == SubSeq(sig, 1, Len(sig) - 1)

AbsentHeader == [present |-> FALSE, value |-> <<>>]
\* the x-shopify-hmac-sha256 headers a request may carry
HmacHeaders ==
    LET sigs == {HmacBase64(k, b) : k \in {PlaceholderSecret, "s3cret", "other"},
                                    b \in HookBodies}
    IN  {AbsentHeader, [present |-> TRUE, value |-> <<>>]}
            \cup {[present |-> TRUE, value |-> v] :
                    v \in sigs \cup {CutShort(g) : g \in sigs}
                              \cup {FlipAt(g, i) : g \in sigs, i \in 1..4}}

\* the x-shopify-topic headers, Null = absent
HookTopics == {Null, "orders/create", "orders/updated", "products/create",
               "products/update", "app/uninstalled", "carts/update"}

HookRequests == [body : HookBodies, hmac : HmacHeaders, topic : HookTopics, shop : {"s1"}]
NoHookRequest == [body |-> "null", hmac |-> AbsentHeader, topic |-> Null, shop |-> "s1"]

\* Mutant of VerificationRequired: the check is always skipped.
VerificationNeverRequired(secret) == FALSE

\* line 17: the signature is checked unless the secret is the placeholder
VerificationRequired(secret) == secret # PlaceholderSecret

\* Mutant of SignatureMatches: a request without the header passes.
SignatureMatchesOrAbsent(header, expected) ==
    ~header.present \/ header.value = expected

\* line 23: hmacHeader !== expectedHmac, negated
SignatureMatches(header, expected) == header.present /\ header.value = expected

\* line 23: what the operator !== reads of two strings: nothing when the
\* header is absent or the lengths differ, otherwise the symbols up to and
\* including the first that differs
RECURSIVE FirstDifference(_, _, _)
FirstDifference(a, b, i) ==
    IF i > Len(a) THEN Len(a)
    ELSE IF a[i] # b[i] THEN i
    ELSE FirstDifference(a, b, i + 1)
CompareSteps(header, expected) ==
    IF ~header.present \/ Len(header.value) # Len(expected) THEN 0
    ELSE FirstDifference(header.value, expected, 1)

\* lines 40-66: the cases of the switch that read payload.id
ReadsPayloadId(topic) ==
    topic \in {"orders/create", "orders/updated", "products/create", "products/update"}

\* reading a property of null throws a TypeError
DispatchThrows(topic, kind) == ReadsPayloadId(topic) /\ kind = "null"

NoHookBody == [success |-> FALSE, error |-> Null]

HookRespond(status, body, trace, log) ==
    /\ wStatus' = status
    /\ wBody' = body
    /\ wTrace' = trace
    /\ wLog' = log

\* Mutant of PostWebhook: the body is parsed before the signature is checked.
PostWebhookParseFirst(req) ==
    LET secret == WebhookSecret(wEnv)
        received == <<<<"log", "Webhook received">>>>
        checked == VerificationRequired(secret)
        t1 == IF checked THEN <<"parse", "verify">> ELSE <<"parse">>
        kind == JsonKind(req.body)
    IN
    /\ wStatus = 0
    /\ wReq' = req
    /\ UNCHANGED wEnv
    /\ wCompared' = IF checked /\ kind # "invalid"
                    THEN CompareSteps(req.hmac, HmacBase64(secret, req.body))
                    ELSE 0
    /\ IF kind = "invalid"
       THEN HookRespond(400, [NoHookBody EXCEPT !.error = "Invalid JSON"], <<"parse">>,
                Append(received, <<"error", "Failed to parse webhook payload">>))
       ELSE IF checked /\ ~SignatureMatches(req.hmac, HmacBase64(secret, req.body))
       THEN HookRespond(401, [NoHookBody EXCEPT !.error = "Invalid signature"], t1,
                Append(received, <<"error", "Webhook signature verification failed">>))
       ELSE IF DispatchThrows(req.topic, kind)
       THEN HookRespond(500, [NoHookBody EXCEPT !.error = "Internal server error"],
                Append(t1, "dispatch"),
                Append(received, <<"error", "Webhook processing error">>))
       ELSE HookRespond(200, [NoHookBody EXCEPT !.success = TRUE],
                Append(t1, "dispatch"),
                Append(received, <<"log", "topic handled">>))

\* The whole handler, lines 7-87
PostWebhook(req) ==
    LET secret == WebhookSecret(wEnv)
        received == <<<<"log", "Webhook received">>>>
        checked == VerificationRequired(secret)
        t1 == IF checked THEN <<"verify">> ELSE <<>>
        kind == JsonKind(req.body)
    IN
    /\ wStatus = 0
    /\ wReq' = req
    /\ UNCHANGED wEnv
    /\ wCompared' = IF checked THEN CompareSteps(req.hmac, HmacBase64(secret, req.body))
                    ELSE 0
    /\ IF checked /\ ~SignatureMatches(req.hmac, HmacBase64(secret, req.body))
       THEN HookRespond(401, [NoHookBody EXCEPT !.error = "Invalid signature"], t1,
                Append(received, <<"error", "Webhook signature verification failed">>))
       ELSE IF kind = "invalid"
       THEN HookRespond(400, [NoHookBody EXCEPT !.error = "Invalid JSON"],
                Append(t1, "parse"),
                Append(received, <<"error", "Failed to parse webhook payload">>))
       ELSE IF DispatchThrows(req.topic, kind)
       THEN HookRespond(500, [NoHookBody EXCEPT !.error = "Internal server error"],
                t1 \o <<"parse", "dispatch">>,
                Append(received, <<"error", "Webhook processing error">>))
       ELSE HookRespond(200, [NoHookBody EXCEPT !.success = TRUE],
                t1 \o <<"parse", "dispatch">>,
                Append(received, <<"log", IF req.topic \in {"carts/update", Null}
                                          THEN "Unhandled webhook topic"
                                          ELSE "topic handled">>))

WebhookRequest ==
    /\ \E req \in HookRequests : PostWebhook(req)
    /\ UNCHANGED <<listVars, sessVars, sessions, pushVars, concVars, svcVars, pageVars>>

----------------------------------------------------------------------------
(* Initial states *)

ServiceIdle ==
    /\ products = <<>>
    /\ suppliers = {}
    /\ localName = Null
    /\ decided = [i \in ProductIds |-> "absent"]
    /\ svcCall = NoCall

PageIdle ==
    /\ selectedStore = Null
    /\ oNet = [e \in EndpointNames |-> CHOOSE a \in Answers : a.rejects]
    /\ oCalls = <<>>
    /\ orders = <<>>
    /\ oLoading = TRUE
    /\ oError = Null
    /\ oDone = FALSE

ListIdle ==
    /\ lCookie = Null
    /\ lStatus = 0
    /\ lBody = NoListBody
    /\ lQueried = {}
    /\ lDeleted = {}

HookIdle ==
    /\ wReq = NoHookRequest
    /\ wStatus = 0
    /\ wBody = NoHookBody
    /\ wTrace = <<>>
    /\ wLog = <<>>
    /\ wCompared = 0

SessionIdle ==
    /\ sCookie = Null
    /\ sStatus = 0
    /\ sBody = NoSessionBody
    /\ sDeleted = {}

PushIdle ==
    /\ pReq = BadJsonRequest
    /\ pStatus = 0
    /\ pBody = NoPushBody
    /\ pSent = <<>>
    /\ pReads = {}
    /\ pInserts = <<>>
    /\ pUp = NoAnswer
    /\ pInsertResult = "none"

ListInit ==
    /\ PageIdle
    /\ ServiceIdle
    /\ pushers = NoPushers
    /\ sellerConnections \in SeqsUpTo(PrimaryRecords, MaxPrimary)
    /\ tokenStores \in SeqsUpTo(LegacyRecords, MaxLegacy)
    /\ ListIdle
    /\ store_configs = {}
    /\ shopify_tokens = [s \in Shops |-> Null]
    /\ mappings = <<>>
    /\ PushIdle
    /\ sessions = SessionStore
    /\ SessionIdle
    /\ wEnv = Null
    /\ HookIdle

ListNext == ListRequest

ListSpec == ListInit /\ [][ListNext]_vars

PushInit ==
    /\ PageIdle
    /\ ServiceIdle
    /\ pushers = NoPushers
    /\ store_configs \in ConfigTables
    /\ shopify_tokens \in TokenTables
    /\ mappings \in {<<>>, <<OldMapping>>}
    /\ PushIdle
    /\ sellerConnections = <<>>
    /\ tokenStores = <<>>
    /\ ListIdle
    /\ sessions = SessionStore
    /\ SessionIdle
    /\ wEnv = Null
    /\ HookIdle

PushNext == PushRequest

PushSpec == PushInit /\ [][PushNext]_vars

\* The two endpoints that verify sessions, on any session store
SessionInit ==
    /\ PageIdle
    /\ ServiceIdle
    /\ pushers = NoPushers
    /\ sessions \in SessionTables
    /\ SessionIdle
    /\ sellerConnections = <<>>
    /\ tokenStores = <<>>
    /\ ListIdle
    /\ store_configs = {}
    /\ shopify_tokens = [s \in Shops |-> Null]
    /\ mappings = <<>>
    /\ PushIdle
    /\ wEnv = Null
    /\ HookIdle

SessionNext == SessionRequest \/ ListRequest

SessionSpec == SessionInit /\ [][SessionNext]_vars

\* The webhook endpoint under every configuration of the secret
WebhookInit ==
    /\ PageIdle
    /\ ServiceIdle
    /\ pushers = NoPushers
    /\ wEnv \in SecretEnvs
    /\ HookIdle
    /\ sessions = SessionStore
    /\ SessionIdle
    /\ sellerConnections = <<>>
    /\ tokenStores = <<>>
    /\ ListIdle
    /\ store_configs = {}
    /\ shopify_tokens = [s \in Shops |-> Null]
    /\ mappings = <<>>
    /\ PushIdle

WebhookNext == WebhookRequest

WebhookSpec == WebhookInit /\ [][WebhookNext]_vars

\* Concurrent pushes on a store where s1 has a legacy token and s2 has, or
\* has not, an api key pair
ConcConfigTables ==
    {{}, {[store_url |-> "s2", is_active |-> TRUE, access_token |-> Null,
           api_key |-> DirectKey("s2"), api_secret |-> DirectSecret("s2")]}}

ConcInit ==
    /\ PageIdle
    /\ ServiceIdle
    /\ pushers \in [Pushers -> {Arrived(r) : r \in ConcRequests}]
    /\ store_configs \in ConcConfigTables
    /\ shopify_tokens = [s \in Shops |-> IF s = "s1" THEN LegacyToken(s) ELSE Null]
    /\ mappings \in {<<>>, <<OldMapping>>}
    /\ PushIdle
    /\ sellerConnections = <<>>
    /\ tokenStores = <<>>
    /\ ListIdle
    /\ sessions = SessionStore
    /\ SessionIdle
    /\ wEnv = Null
    /\ HookIdle

ConcNext == ConcStep

ConcSpec == ConcInit /\ [][ConcNext]_vars

\* The product service, called any number of times, on every suppliers table
\* and client-stored name
ServiceInit ==
    /\ PageIdle
    /\ products = <<>>
    /\ suppliers \in SupplierTables
    /\ localName \in LocalNames
    /\ decided = [i \in ProductIds |-> "absent"]
    /\ svcCall = NoCall
    /\ pushers = NoPushers
    /\ store_configs = {}
    /\ shopify_tokens = [s \in Shops |-> Null]
    /\ mappings = <<>>
    /\ PushIdle
    /\ sellerConnections = <<>>
    /\ tokenStores = <<>>
    /\ ListIdle
    /\ sessions = SessionStore
    /\ SessionIdle
    /\ wEnv = Null
    /\ HookIdle

ServiceNext == ServiceCall

ServiceSpec == ServiceInit /\ [][ServiceNext]_vars

\* The delivery page before fetchOrders runs: the state an earlier run left
\* (orders, an error), any selected store and any behaviour of the endpoints
PageInit ==
    /\ selectedStore \in {Null, "s1"}
    /\ oNet \in [EndpointNames -> Answers]
    /\ oCalls = <<>>
    /\ orders \in {<<>>, <<[id |-> 9, status |-> "pending"]>>}
    /\ oLoading \in BOOLEAN
    /\ oError \in {Null, "Failed to fetch orders"}
    /\ oDone = FALSE
    /\ ServiceIdle
    /\ pushers = NoPushers
    /\ store_configs = {}
    /\ shopify_tokens = [s \in Shops |-> Null]
    /\ mappings = <<>>
    /\ PushIdle
    /\ sellerConnections = <<>>
    /\ tokenStores = <<>>
    /\ ListIdle
    /\ sessions = SessionStore
    /\ SessionIdle
    /\ wEnv = Null
    /\ HookIdle

PageNext == FetchOrdersCall

PageSpec == PageInit /\ [][PageNext]_vars

Init ==
    \/ ListInit \/ PushInit \/ SessionInit \/ WebhookInit \/ ConcInit \/ ServiceInit
    \/ PageInit
Next ==
    \/ ListRequest \/ PushRequest \/ SessionRequest \/ WebhookRequest \/ ConcStep
    \/ ServiceCall \/ FetchOrdersCall
Spec == Init /\ [][Next]_vars

----------------------------------------------------------------------------
(* Properties of the push operation *)

Pushed == pStatus # 0

\* the request passes the handler's validation: a JSON body with a shop and a
\* product that has a title and a priced first variant
PushWellFormed ==
    /\ pReq.json
    /\ pReq.shop # Null
    /\ ~pReq.product.isNull
    /\ pReq.product.title # Null
    /\ pReq.product.variants.kind = "array"
    /\ pReq.product.variants.items # <<>>
    /\ pReq.product.variants.items[1].price # Null

\* the active direct-config records of the shop of the request
ActiveConfigs == {r \in store_configs : r.store_url = pReq.shop /\ r.is_active}

HasKeyPair(r) == r.api_key # Null /\ r.api_secret # Null

\* the Basic credential built from a record
BasicOf(r) == "Basic " \o Base64(r.api_key \o ":" \o r.api_secret)

\* no row was added to product_shopify_mappings
NoMappingWritten == mappings \in {<<>>, <<OldMapping>>} /\ pInserts = <<>>

C2_ExactlyOneScheme ==
    /\ \A k \in DOMAIN pSent :
           (pSent[k].token # Null) # (pSent[k].authorization # Null)
    /\ (Pushed /\ PushWellFormed) =>
           \A r \in ActiveConfigs :
               (r.access_token # Null /\ HasKeyPair(r)) =>
                   /\ Len(pSent) = 1
                   /\ pSent[1].token = r.access_token
                   /\ pSent[1].authorization = Null

\* a push went out on a record that holds a token and a key pair
C2_Witness ==
    /\ Len(pSent) = 1
    /\ \E r \in ActiveConfigs : r.access_token # Null /\ HasKeyPair(r)

\* C3: without an active direct-config record the push uses the legacy token of
\* the shop when there is one; when there is none it ends with 401, sends
\* nothing to the external platform and writes no mapping row.
C3_LegacyFallbackOr401 ==
    (Pushed /\ PushWellFormed /\ ActiveConfigs = {}) =>
        IF shopify_tokens[pReq.shop] # Null
        THEN /\ Len(pSent) = 1
             /\ pSent[1].token = shopify_tokens[pReq.shop]
             /\ pSent[1].authorization = Null
        ELSE /\ pStatus = 401
             /\ pSent = <<>>
             /\ NoMappingWritten

\* a push for a shop with no credential at all ended, while another shop has
\* credentials and a mapping row exists
C3_Witness ==
    /\ Pushed
    /\ PushWellFormed
    /\ ActiveConfigs = {}
    /\ shopify_tokens[pReq.shop] = Null
    /\ \E s \in Shops : shopify_tokens[s] # Null
    /\ mappings # <<>>

\* every credential value on the request comes from the direct-config record r
AllFromDirect(q, r) ==
    /\ q.token # Null => q.token = r.access_token
    /\ q.authorization # Null => (HasKeyPair(r) /\ q.authorization = BasicOf(r))
\* every credential value on the request comes from the legacy record of the shop
AllFromLegacy(q) ==
    /\ q.token # Null => q.token = shopify_tokens[q.shop]
    /\ q.authorization = Null

\* C4: the credential values on an outgoing request all come from one record:
\* the direct-config record of the shop or its legacy token record, never a
\* field of the one with a field of the other.
C4_OneRecordOnly ==
    \A k \in DOMAIN pSent :
        \/ \E r \in store_configs : r.store_url = pSent[k].shop /\ AllFromDirect(pSent[k], r)
        \/ AllFromLegacy(pSent[k])

\* a push went out for a shop that has a pair-only active record and a legacy token,
\* so that a token of the one could have joined the pair of the other
C4_Witness ==
    /\ Len(pSent) = 1
    /\ pSent[1].authorization # Null
    /\ shopify_tokens[pReq.shop] # Null
    /\ \E s \in Shops \ {pReq.shop} : shopify_tokens[s] # Null

\* the product has no variant with a price
NoPricedVariant(product) ==
    \A i \in DOMAIN product.variants.items : product.variants.items[i].price = Null

\* the body lacks product or shop, or the product lacks a title, a variants
\* array or a priced variant
PushRejectable ==
    /\ pReq.json
    /\ \/ pReq.product.isNull
       \/ pReq.shop = Null
       \/ pReq.product.title = Null
       \/ pReq.product.variants.kind # "array"
       \/ NoPricedVariant(pReq.product)

\* C17: a push whose body lacks product or shop, or whose product lacks a title,
\* a variants array or a priced variant, is answered 400 without reading a
\* credential store, calling the external platform or writing a mapping row.
C17_InvalidPushTouchesNothing ==
    (Pushed /\ PushRejectable) =>
        /\ pStatus = 400
        /\ pReads = {}
        /\ pSent = <<>>
        /\ NoMappingWritten

\* a product without variants was pushed to a shop that has credentials
C17_Witness ==
    /\ pStatus = 400
    /\ pReq.product.title # Null
    /\ pReq.product.variants.kind = "missing"
    /\ pReq.shop # Null
    /\ ActiveConfigs # {}
    /\ shopify_tokens[pReq.shop] # Null

\* the external platform answered this push
PlatformAnswered == Pushed /\ pSent # <<>> /\ ~pUp.throws

\* C18: when the external platform answers with a status outside 2xx, the push
\* response carries that status and the platform's error payload, the platform
\* was called once, and no mapping row is written.
C18_UpstreamErrorVerbatim ==
    (PlatformAnswered /\ ~(pUp.status >= 200 /\ pUp.status <= 299)) =>
        /\ pStatus = pUp.status
        /\ pBody.upstreamErrors = pUp.errors
        /\ Len(pSent) = 1
        /\ NoMappingWritten

\* C19: when the external platform answers with a 2xx status, the push responds
\* 200 {success: true, product}, whether the mapping insert succeeds, returns
\* an error or throws.
C19_SuccessDespiteMappingFailure ==
    (PlatformAnswered /\ pUp.status >= 200 /\ pUp.status <= 299) =>
        /\ pStatus = 200
        /\ pBody.success
        /\ pBody.product = pUp.product

PushSucceeded == pStatus = 200 /\ pBody.success

\* C20 as stated: every push that ends with 200 {success: true} attempts the
\* insertion of exactly one mapping row.
C20_OneInsertPerSuccess ==
    PushSucceeded => Len(pInserts) = 1

\* the rows of the mapping table before the push
MappingsBefore ==
    IF pInsertResult = "ok" THEN SubSeq(mappings, 1, Len(mappings) - 1) ELSE mappings

\* C20 (amended): a push that ends with 200 {success: true} attempts the
\* insertion of exactly one mapping row when the request carried the
\* X-Supplier-Product-ID header and the platform's answer held a product id, and
\* of none otherwise; when the insert does not fail, the table has grown by
\* exactly that row.
C20_OneInsertWhenIdentified ==
    PushSucceeded =>
        /\ Len(pInserts) =
               IF pReq.spid # Null /\ pUp.product.present /\ pUp.product.hasId THEN 1 ELSE 0
        /\ (pInserts # <<>>) <=> (pInsertResult # "none")
        /\ MappingsBefore \in {<<>>, <<OldMapping>>}
        /\ pInsertResult = "ok" =>
               /\ mappings = Append(MappingsBefore, pInserts[1])
               /\ pInserts[1].shopify_store_url = pReq.shop
               /\ pInserts[1].supplier_product_id = pReq.spid

\* a push with the header succeeded and its row joined an earlier row
C20_Witness ==
    /\ PushSucceeded
    /\ pReq.spid # Null
    /\ pInsertResult = "ok"
    /\ Len(mappings) = 2

\* C22: credential resolution during a push is read-only: in every outcome of
\* a push (400, 401, upstream error, success) the direct-config records and the
\* legacy OAuth token records are left unchanged; the only store a push writes
\* is the product-mapping table.
C22_PushReadsCredentialStores ==
    [][/\ store_configs' = store_configs
       /\ shopify_tokens' = shopify_tokens
       /\ sessions' = sessions
       /\ <<sellerConnections, tokenStores>>' = <<sellerConnections, tokenStores>>]_vars

\* a push resolved a credential from both stores and wrote its mapping row
C22_Witness ==
    /\ PushSucceeded
    /\ pReads = {"store_configs", "shopify_tokens"}
    /\ pInsertResult = "ok"
    /\ store_configs # {}

HasPricedVariant(product) ==
    /\ product.variants.kind = "array"
    /\ \E i \in DOMAIN product.variants.items : product.variants.items[i].price # Null

\* C26: push validation accepts every product that has a title and at least one
\* variant with a price, wherever in the array the priced variant sits: the 400
\* of the variant/price requirement is never the answer to such a product.
C26_AnyPricedVariantAccepted ==
    (/\ Pushed /\ pReq.json /\ pReq.shop # Null /\ ~pReq.product.isNull
     /\ pReq.product.title # Null
     /\ HasPricedVariant(pReq.product))
        => pStatus # 400

----------------------------------------------------------------------------
(* Properties of concurrent pushes *)

\* the rows the pushes of this behaviour have added
NewRows == SelectSeq(mappings, LAMBDA r : r.pushed_at = "now")

\* the pushers whose insert succeeded
Inserted == {i \in Pushers : pushers[i].ins = "ok"}

\* a step changes the table only by appending the row of one pusher
MappingsOnlyGrow ==
    \/ mappings' = mappings
    \/ \E i \in Pushers : mappings' = Append(mappings, pushers[i].row)

\* every succeeded insert has exactly its own row in the table
OneRowPerInsert ==
    /\ Len(NewRows) = Cardinality(Inserted)
    /\ \A i \in Inserted :
          Cardinality({k \in DOMAIN mappings : mappings[k] = pushers[i].row}) = 1
    /\ Len(mappings) - Len(NewRows) <= 1
    /\ Len(mappings) > Len(NewRows) => mappings[1] = OldMapping

\* C21: under every interleaving of concurrent pushes the mapping table only
\* grows: each push that inserts appends its own row, no existing row is
\* modified or removed, and pushes of the same supplier product and shop leave
\* one row per push.
C21_MappingsAppendOnly ==
    [][MappingsOnlyGrow]_vars /\ []OneRowPerInsert

\* two pushes of the same supplier product to the same shop both inserted
C21_Witness ==
    /\ Inserted = {1, 2}
    /\ pushers[1].req = pushers[2].req
    /\ Len(NewRows) = 2
    /\ mappings[1] = OldMapping

\* the platform answered pusher i with a 2xx status and a product id
AnsweredWithId(i) ==
    /\ ~pushers[i].up.throws
    /\ pushers[i].up.json
    /\ pushers[i].up.status >= 200 /\ pushers[i].up.status <= 299
    /\ pushers[i].up.product.present
    /\ pushers[i].up.product.hasId

\* the row of pusher i names the shop of its request and the id of its answer
RowOfItsPush(i) ==
    /\ pushers[i].row.shopify_store_url = pushers[i].req.shop
    /\ pushers[i].row.shopify_product_id = NatToString(pushers[i].up.product.id)
    /\ pushers[i].row.supplier_product_id = pushers[i].req.spid

\* a row is added only by a pusher that already holds an answer with an id
InsertAfterAnswer ==
    mappings' # mappings =>
        \E i \in Pushers :
            /\ AnsweredWithId(i)
            /\ RowOfItsPush(i)
            /\ mappings' = Append(mappings, pushers[i].row)

\* every row written belongs to a push that was answered with an id, and a push
\* whose call failed or was never made has no row
RowsOnlyOfAnsweredPushes ==
    /\ \A k \in DOMAIN NewRows :
          \E i \in Pushers : AnsweredWithId(i) /\ RowOfItsPush(i) /\ NewRows[k] = pushers[i].row
    /\ \A i \in Pushers :
          ~AnsweredWithId(i) =>
              /\ pushers[i].row = NoRowYet
              /\ pushers[i].ins = "none"
              /\ pushers[i].pc # "inserting"

\* C27: a mapping row is inserted only after the external platform has returned
\* a 2xx response containing a product id for that same push, its store and
\* external product id are the shop of that request and the id in that
\* response, and no row exists for a push whose call failed or was never made.
C27_RowOnlyAfterPlatformId ==
    [][InsertAfterAnswer]_vars /\ []RowsOnlyOfAnsweredPushes

\* one push wrote its row while the call of another failed
C27_Witness ==
    /\ \E i \in Pushers : pushers[i].ins = "ok" /\ mappings[Len(mappings)] = pushers[i].row
    /\ \E i \in Pushers : pushers[i].pc = "done" /\ pushers[i].status \in {401, 422, 500}
    /\ Len(NewRows) = 1

----------------------------------------------------------------------------
(* Properties of the store listing *)

ListOK == lStatus = 200
Listed == lBody.stores

\* the store identifiers each source returned
PrimaryShops == {sellerConnections[i].storeUrl : i \in DOMAIN sellerConnections}
LegacyShops == {tokenStores[j].shop : j \in DOMAIN tokenStores}

\* index of the first / last record of a store identifier in a source
FirstPrimary(shop) ==
    CHOOSE i \in DOMAIN sellerConnections :
        /\ sellerConnections[i].storeUrl = shop
        /\ \A h \in 1..(i - 1) : sellerConnections[h].storeUrl # shop
LastPrimary(shop) ==
    CHOOSE i \in DOMAIN sellerConnections :
        /\ sellerConnections[i].storeUrl = shop
        /\ \A h \in (i + 1)..Len(sellerConnections) : sellerConnections[h].storeUrl # shop
FirstLegacy(shop) ==
    CHOOSE j \in DOMAIN tokenStores :
        /\ tokenStores[j].shop = shop
        /\ \A h \in 1..(j - 1) : tokenStores[h].shop # shop
LastLegacy(shop) ==
    CHOOSE j \in DOMAIN tokenStores :
        /\ tokenStores[j].shop = shop
        /\ \A h \in (j + 1)..Len(tokenStores) : tokenStores[h].shop # shop

\* the listed entry carries the fields of primary record c / of legacy record t
IsPrimaryOf(e, c) ==
    /\ e.shop = c.storeUrl
    /\ e.name = c.storeName
    /\ e.connectedAt = c.connectedAt
    /\ e.lastUpdated = c.updatedAt
    /\ e.type = c.connectionType
    /\ e.source = "seller_connections"
IsLegacyOf(e, t) ==
    /\ e.shop = t.shop
    /\ e.name = t.shop
    /\ e.connectedAt = t.created_at
    /\ e.lastUpdated = t.updated_at
    /\ e.type = "legacy"
    /\ e.source = "shopify_tokens"

\* C5: when a primary connection and a legacy entry share a store identifier,
\* the listing holds an entry with the fields of a primary record of that
\* identifier and no entry from the legacy store for it, whatever the two
\* updatedAt values are.
C5_PrimaryWinsCollision ==
    ListOK =>
        \A shop \in PrimaryShops \cap LegacyShops :
            /\ \E k \in DOMAIN Listed :
                   \E i \in DOMAIN sellerConnections : IsPrimaryOf(Listed[k], sellerConnections[i])
                       /\ sellerConnections[i].storeUrl = shop
            /\ \A k \in DOMAIN Listed :
                   Listed[k].shop = shop => Listed[k].source # "shopify_tokens"

\* a listing was returned for a collision in which the legacy entry is strictly newer
C5_Witness ==
    /\ ListOK
    /\ \E i \in DOMAIN sellerConnections, j \in DOMAIN tokenStores :
          /\ sellerConnections[i].storeUrl = tokenStores[j].shop
          /\ tokenStores[j].updated_at > sellerConnections[i].updatedAt

\* C6: the listing holds exactly one entry per distinct store identifier of the
\* union of the two sources, none twice, and totalStores is their number.
C6_OneEntryPerStore ==
    ListOK =>
        /\ {Listed[k].shop : k \in DOMAIN Listed} = PrimaryShops \cup LegacyShops
        /\ \A k1, k2 \in DOMAIN Listed : Listed[k1].shop = Listed[k2].shop => k1 = k2
        /\ lBody.totalStores = Cardinality(PrimaryShops \cup LegacyShops)

\* a listing of two stores was returned from sources holding more than two records
C6_Witness ==
    /\ ListOK
    /\ lBody.totalStores = 2
    /\ Len(sellerConnections) + Len(tokenStores) > 2
    /\ PrimaryShops \cap LegacyShops # {}

\* C7: every listed entry of the primary registry precedes every listed entry of
\* the legacy token store; one primary store and one legacy-only store give
\* exactly 2 entries, the primary one first.
C7_PrimaryFirst ==
    ListOK =>
        /\ \A k1, k2 \in DOMAIN Listed :
               (Listed[k1].source = "seller_connections"
                   /\ Listed[k2].source = "shopify_tokens") => k1 < k2
        /\ (Len(sellerConnections) = 1 /\ Len(tokenStores) = 1
               /\ sellerConnections[1].storeUrl # tokenStores[1].shop)
           => /\ Len(Listed) = 2
              /\ IsPrimaryOf(Listed[1], sellerConnections[1])
              /\ IsLegacyOf(Listed[2], tokenStores[1])

\* the end-to-end scenario: one primary store, one legacy-only store, listed
C7_Witness ==
    /\ ListOK
    /\ Len(sellerConnections) = 1
    /\ Len(tokenStores) = 1
    /\ sellerConnections[1].storeUrl # tokenStores[1].shop
    /\ Len(Listed) = 2

\* the listed entry of a store identifier
EntryOf(shop) == Listed[CHOOSE k \in DOMAIN Listed : Listed[k].shop = shop]

\* C8 as stated: in each of the two sources the later occurrence of a repeated
\* store identifier is the one listed.
C8_LaterOccurrenceWinsBoth ==
    ListOK =>
        /\ \A shop \in PrimaryShops :
               IsPrimaryOf(EntryOf(shop), sellerConnections[LastPrimary(shop)])
        /\ \A shop \in LegacyShops \ PrimaryShops :
               IsLegacyOf(EntryOf(shop), tokenStores[LastLegacy(shop)])

\* C8 (amended): of a store identifier repeated within the primary registry the
\* later occurrence is listed; of one repeated within the legacy token store
\* the earliest occurrence is listed; neither source changes the other's entries.
C8_LaterPrimaryFirstLegacy ==
    ListOK =>
        /\ \A shop \in PrimaryShops :
               IsPrimaryOf(EntryOf(shop), sellerConnections[LastPrimary(shop)])
        /\ \A shop \in LegacyShops \ PrimaryShops :
               IsLegacyOf(EntryOf(shop), tokenStores[FirstLegacy(shop)])

\* both sources repeat a store identifier with differing records, and the
\* repeated legacy identifier is not in the primary registry
C8_Witness ==
    /\ ListOK
    /\ \E i1, i2 \in DOMAIN sellerConnections :
          /\ i1 < i2
          /\ sellerConnections[i1].storeUrl = sellerConnections[i2].storeUrl
          /\ sellerConnections[i1] # sellerConnections[i2]
    /\ \E j1, j2 \in DOMAIN tokenStores :
          /\ j1 < j2
          /\ tokenStores[j1].shop = tokenStores[j2].shop
          /\ tokenStores[j1] # tokenStores[j2]
          /\ tokenStores[j1].shop \notin PrimaryShops

\* C9 as stated: of two listed entries of the same source the one updated later
\* comes first.
C9_SortedWithinSource ==
    ListOK =>
        \A k1, k2 \in DOMAIN Listed :
            (Listed[k1].source = Listed[k2].source
                /\ Listed[k1].lastUpdated > Listed[k2].lastUpdated) => k1 < k2

\* a source returned its records most-recently-updated first, none repeated
PrimarySortedNoRepeat ==
    \A i1, i2 \in DOMAIN sellerConnections :
        i1 < i2 => /\ sellerConnections[i1].updatedAt >= sellerConnections[i2].updatedAt
                   /\ sellerConnections[i1].storeUrl # sellerConnections[i2].storeUrl
LegacySortedNoRepeat ==
    \A j1, j2 \in DOMAIN tokenStores :
        j1 < j2 => /\ tokenStores[j1].updated_at >= tokenStores[j2].updated_at
                   /\ tokenStores[j1].shop # tokenStores[j2].shop

\* C9 (amended): the listing keeps, within each source, the order in which the
\* source returned its records (a repeated identifier stands at its first
\* occurrence); it is most-recently-updated first within a source when that
\* source returned its records so, none repeated.
C9_SourceOrderKept ==
    ListOK =>
        /\ \A k1, k2 \in DOMAIN Listed :
               k1 < k2 =>
                   /\ (Listed[k1].source = "seller_connections"
                          /\ Listed[k2].source = "seller_connections")
                      => FirstPrimary(Listed[k1].shop) < FirstPrimary(Listed[k2].shop)
                   /\ (Listed[k1].source = "shopify_tokens"
                          /\ Listed[k2].source = "shopify_tokens")
                      => FirstLegacy(Listed[k1].shop) < FirstLegacy(Listed[k2].shop)
        /\ PrimarySortedNoRepeat =>
               \A k1, k2 \in DOMAIN Listed :
                   (k1 < k2 /\ Listed[k1].source = "seller_connections"
                       /\ Listed[k2].source = "seller_connections")
                   => Listed[k1].lastUpdated >= Listed[k2].lastUpdated
        /\ LegacySortedNoRepeat =>
               \A k1, k2 \in DOMAIN Listed :
                   (k1 < k2 /\ Listed[k1].source = "shopify_tokens"
                       /\ Listed[k2].source = "shopify_tokens")
                   => Listed[k1].lastUpdated >= Listed[k2].lastUpdated

\* the primary registry returned three records, the third repeating the store
\* identifier of the first, and both stores are listed in the order returned
C9_Witness ==
    /\ ListOK
    /\ Len(sellerConnections) = 3
    /\ sellerConnections[1].storeUrl = sellerConnections[3].storeUrl
    /\ sellerConnections[1].storeUrl # sellerConnections[2].storeUrl
    /\ Len(Listed) = 2
    /\ Listed[1].shop = sellerConnections[1].storeUrl

\* the cookie names a live session of a seller
IsSellerSession(cookie) ==
    \E s \in sessions : s.token = cookie /\ ~s.expired /\ s.userType = "seller"

\* C10: the listing answers 401, querying neither source, when the cookie is
\* absent, does not verify, or belongs to a user who is no seller; it answers
\* 200 with stores, username and totalStores only for a verified seller session.
C10_ListingAuth ==
    lStatus # 0 =>
        /\ ~IsSellerSession(lCookie) => (lStatus = 401 /\ lQueried = {})
        /\ lStatus = 200 =>
               /\ IsSellerSession(lCookie)
               /\ \E s \in sessions : s.token = lCookie /\ lBody.username = s.username
               /\ lBody.totalStores = Len(lBody.stores)
               /\ lBody.error = Null

\* a verified session of a user who is no seller was answered
C10_Witness ==
    /\ lStatus = 401
    /\ lCookie = "tokAdmin"

----------------------------------------------------------------------------
(* Properties of session verification *)

\* the token the request presented did not verify: unknown or expired
PresentedTokenFails(cookie) ==
    /\ cookie # Null
    /\ cookie # ""
    /\ \A r \in sessions : r.token = cookie => r.expired

\* C11 as stated: every 401 of the session endpoint clears the session_token
\* cookie, a 200 never does.
C11_Every401Clears ==
    /\ sStatus = 401 => "session_token" \in sDeleted
    /\ sStatus = 200 => "session_token" \notin sDeleted

\* C11 (amended): a 401 of the session endpoint clears the session_token cookie
\* exactly when a token was sent and did not verify; the 401 for a request
\* without token and every 200 leave the cookie alone.
C11_FailedTokenClears ==
    /\ sStatus = 401 => (("session_token" \in sDeleted) <=> PresentedTokenFails(sCookie))
    /\ (sStatus # 0 /\ sStatus # 401) => sDeleted = {}
    /\ (sStatus = 401 /\ ~PresentedTokenFails(sCookie)) => ~Truthy(sCookie)

\* an expired token was answered 401 with the cookie cleared
C11_Witness ==
    /\ sStatus = 401
    /\ \E r \in sessions : r.token = sCookie /\ r.expired
    /\ "session_token" \in sDeleted

\* C12: the session endpoint and the store listing both delete the
\* session_token cookie when the token they were presented does not verify.
C12_CallersClearDeadToken ==
    /\ (sStatus = 401 /\ PresentedTokenFails(sCookie)) => "session_token" \in sDeleted
    /\ (lStatus = 401 /\ PresentedTokenFails(lCookie)) => "session_token" \in lDeleted

----------------------------------------------------------------------------
(* Properties of the webhook endpoint *)

HookAnswered == wStatus # 0
InTrace(step) == \E i \in DOMAIN wTrace : wTrace[i] = step

\* a real secret is configured
RealSecret == Truthy(wEnv) /\ wEnv # "your-webhook-secret"

\* the signature header of the request is the HMAC of its body under the
\* configured secret
HeaderIsHmac ==
    /\ wReq.hmac.present
    /\ wReq.hmac.value = HmacBase64(wEnv, wReq.body)

\* C13: the status of the webhook response is 401 when verification fails, 400
\* when the body is no valid JSON, and 200 in every other case, whatever the
\* topic header is.
C13_StatusFromVerifyAndParse ==
    HookAnswered =>
        wStatus = IF RealSecret /\ ~HeaderIsHmac THEN 401
                  ELSE IF JsonKind(wReq.body) = "invalid" THEN 400
                  ELSE 200

\* C14: with a real secret a request passes verification exactly when its
\* signature header equals the base64 HMAC-SHA256 of the body; a header that
\* differs in one symbol, an empty and an absent header are answered 401,
\* never 500.
C14_VerifiesExactHmac ==
    (HookAnswered /\ RealSecret) =>
        /\ InTrace("parse") <=> HeaderIsHmac
        /\ ~HeaderIsHmac => (wStatus = 401 /\ wTrace = <<"verify">>)

\* the secret is "s3cret", the body {"id":1}, and the header is the right
\* signature with one symbol changed
C14_Witness ==
    /\ wStatus = 401
    /\ wEnv = "s3cret"
    /\ wReq.body = "{\"id\":1}"
    /\ \E i \in 1..4 : wReq.hmac.value = FlipAt(HmacBase64("s3cret", wReq.body), i)

\* C15: the signature check is skipped exactly when the configured secret is the
\* placeholder; under every other secret a request with a wrong or missing
\* signature reaches neither JSON parsing nor topic dispatch.
C15_BypassOnlyOnPlaceholder ==
    HookAnswered =>
        /\ ~InTrace("verify") <=> ~RealSecret
        /\ (RealSecret /\ ~HeaderIsHmac) => (~InTrace("parse") /\ ~InTrace("dispatch"))

\* no secret is configured and a request without signature was acknowledged
C15_Witness ==
    /\ wStatus = 200
    /\ wEnv = Null
    /\ ~wReq.hmac.present
    /\ InTrace("dispatch")

\* C16: a request processed in bypass mode has a warning logged before it is
\* acknowledged.
C16_BypassLogsWarning ==
    (wStatus = 200 /\ ~InTrace("verify")) =>
        \E i \in DOMAIN wLog : wLog[i][1] = "warn"

\* C23: the signature check compares the received header with the expected
\* signature in constant time: for a header as long as the expected signature,
\* the comparison reads every symbol, wherever the first differing one is.
C23_ConstantTimeCompare ==
    (/\ wStatus = 401
     /\ wReq.hmac.present
     /\ Len(wReq.hmac.value) = Len(HmacBase64(WebhookSecret(wEnv), wReq.body)))
        => wCompared = Len(HmacBase64(WebhookSecret(wEnv), wReq.body))

\* the position of a step in the trace of the handler, 0 when it did not run
StepAt(step) ==
    IF InTrace(step) THEN CHOOSE i \in DOMAIN wTrace : wTrace[i] = step ELSE 0

\* C24: signature verification happens before JSON parsing and topic dispatch:
\* with a real secret configured, a request whose signature is wrong is
\* answered 401 even when its body is no valid JSON, and no topic handling step
\* runs for a request that failed verification or parsing.
C24_VerifyThenParseThenDispatch ==
    HookAnswered =>
        /\ (RealSecret /\ ~HeaderIsHmac) =>
               wStatus = 401 /\ wTrace = <<"verify">>
        /\ RealSecret => wTrace[1] = "verify"
        /\ InTrace("parse") => StepAt("verify") < StepAt("parse")
        /\ InTrace("dispatch") => InTrace("parse") /\ StepAt("parse") < StepAt("dispatch")
        /\ wStatus \in {400, 401} => ~InTrace("dispatch")
        /\ JsonKind(wReq.body) = "invalid" => ~InTrace("dispatch")

\* a request with a wrong signature and a body that is no JSON was answered 401
C24_Witness ==
    /\ wStatus = 401
    /\ RealSecret
    /\ wReq.hmac.present
    /\ ~HeaderIsHmac
    /\ JsonKind(wReq.body) = "invalid"

----------------------------------------------------------------------------
(* Properties of the product service *)

\* the last call was getSupplierProducts
GotSupplierProducts == svcCall.op = "getSupplierProducts"

\* the suppliers table has exactly one row for the user of the last call
DbSupplierOf(email) == {r \in suppliers : r.email = email}

\* C28: in getSupplierProducts the client-stored supplier name selects the
\* products only when the authenticated user cannot be obtained or the supplier
\* lookup by the user's email fails; whenever both succeed the products are
\* selected by the username from the database, whatever the client-stored
\* value is.
C28_StoredNameIsLastResort ==
    GotSupplierProducts =>
        /\ svcCall.source = "local" => (svcCall.authFailed \/ ~svcCall.lookupOk)
        /\ svcCall.source = "local" => svcCall.queried = localName
        /\ (~svcCall.authFailed /\ svcCall.lookupOk) =>
              /\ svcCall.source = "db"
              /\ \E r \in DbSupplierOf(svcCall.user) : svcCall.queried = r.username
              /\ \A k \in DOMAIN svcCall.result :
                    \E r \in DbSupplierOf(svcCall.user) :
                        svcCall.result[k].supplier_id = r.username

\* an authenticated supplier whose stored name is another supplier's got the
\* products of the database username
C28_Witness ==
    /\ GotSupplierProducts
    /\ ~svcCall.authFailed
    /\ svcCall.lookupOk
    /\ localName = "mallory"
    /\ svcCall.queried = "alice"
    /\ svcCall.result # <<>>
    /\ \E k \in DOMAIN products : products[k].supplier_id = "mallory"

\* the ids getApprovedProducts returns in this state
ApprovedIds == IdsOf(ApprovedProducts(products))

\* the row of a product
RowsOf(id) == {products[k] : k \in {j \in DOMAIN products : products[j].id = id}}

----------------------------------------------------------------------------
(* Properties of the delivery page *)

\* the answer of the k-th endpoint called was received and was not ok
AnsweredNotOk(e) == ~oNet[e].rejects /\ ~oNet[e].ok

\* the endpoints are tried in the order unified, GraphQL, REST, a later one
\* only after every earlier one answered not-ok, and none after an ok answer
FallbackChain ==
    /\ Len(oCalls) <= 3
    /\ \A k \in DOMAIN oCalls : oCalls[k] = <<"unified", "graphql", "rest">>[k]
    /\ \A k \in DOMAIN oCalls : \A j \in 1 .. (k - 1) : AnsweredNotOk(oCalls[j])
    /\ \A k \in DOMAIN oCalls :
          (~oNet[oCalls[k]].rejects /\ oNet[oCalls[k]].ok) => k = Len(oCalls)

AllThreeFailed == \A e \in EndpointNames : AnsweredNotOk(e)

\* C30 as stated: fetchOrders tries the three endpoints in the order unified,
\* GraphQL, REST, calls a later endpoint only when every earlier one answered
\* not-ok, stops at the first ok answer, sets the error state only when all
\* three failed, and ends with loading false.
C30_ErrorOnlyWhenAllFailed ==
    oDone =>
        /\ FallbackChain
        /\ oError # Null => (Len(oCalls) = 3 /\ AllThreeFailed)
        /\ oLoading = FALSE

\* the last endpoint called answered ok with a body that could be read
CleanAnswer ==
    /\ oCalls # <<>>
    /\ LET a == oNet[oCalls[Len(oCalls)]]
       IN  ~a.rejects /\ a.ok /\ a.body = "object"

\* C30 (amended): fetchOrders tries the three endpoints in the order unified,
\* GraphQL, REST, calls a later endpoint only when every earlier one answered
\* not-ok, stops at the first ok answer, sets the error state when all three
\* answered not-ok and also when no store is selected, a request is rejected or
\* a body cannot be parsed or holds no usable data, leaves it null otherwise,
\* and ends with loading false.
C30_ErrorUnlessCleanAnswer ==
    oDone =>
        /\ FallbackChain
        /\ oError = Null <=> CleanAnswer
        /\ (Len(oCalls) = 3 /\ AllThreeFailed) => oError # Null
        /\ ~Truthy(selectedStore) => (oCalls = <<>> /\ oError = "No store selected")
        /\ CleanAnswer =>
              /\ Len(orders) = Len(oNet[oCalls[Len(oCalls)]].orders)
              /\ \A k \in DOMAIN orders :
                    orders[k].id = oNet[oCalls[Len(oCalls)]].orders[k].id
        /\ oLoading = FALSE

\* the unified and the GraphQL endpoint answered not-ok and the REST endpoint
\* delivered orders, on a page that showed an error before
C30_Witness ==
    /\ oDone
    /\ oCalls = <<"unified", "graphql", "rest">>
    /\ oError = Null
    /\ Len(orders) = 2
    /\ oLoading = FALSE

====
